---- MODULE Spec2Model ----
(***************************************************************************)
(* Model of serve_static.py: a preview server for a Jekyll site.  A        *)
(* request handler (JekyllStaticHandler) normalises the request path,      *)
(* serves existing .html files through a small front-matter / layout /     *)
(* template-variable processor and everything else through the standard    *)
(* static file handler; start_server creates a default stylesheet and      *)
(* runs the synchronous server.                                            *)
(*                                                                         *)
(* Text is modelled character by character: a string is a sequence of      *)
(* one-character strings, so startswith, split, strip, replace and the     *)
(* three regular expressions are computed the way Python computes them.    *)
(***************************************************************************)
EXTENDS Integers, Sequences, FiniteSets, TLC

VARIABLES
    files,      \* the site directory: file name -> NoFile or [bytes, readable]
    cssDir,     \* whether the directory assets/css exists
    server,     \* "init" | "serving" | "stopped" | "crashed"
    served,     \* requests handled by the running server
    errors,     \* requests whose exception escaped do_GET (socketserver.handle_error)
    lastReq,    \* the last request: NoReq or [path, breakAt]
    lastResp,   \* what the handler did for it: NoResp or a connection record
    tvContent,  \* process_template_vars: the content argument
    tvValue,    \* process_template_vars: the value bound to page.title
    tvOut       \* process_template_vars: NoOut or [ok, text]

vars == <<files, cssDir, server, served, errors, lastReq, lastResp,
          tvContent, tvValue, tvOut>>

serverVars == <<files, cssDir, server, served, errors, lastReq, lastResp>>
tvVars == <<tvContent, tvValue, tvOut>>

-----------------------------------------------------------------------------
(* Strings *)

\* F applied to the value of v, with v evaluated once.
Once(v, F(_)) == CHOOSE r \in {F(x) : x \in {v}} : TRUE

\* A string literal as a sequence of one-character strings.
Chars(s) == [i \in 1..Len(s) |-> SubSeq(s, i, i)]

\* A byte that is not valid UTF-8 (0xFF), as one element of a file's bytes.
BadByte == "<FF>"

\* The regular expression '.', as one element of a pattern.
AnyChar == "<.>"

\* str.strip() with no argument removes these (of the characters modelled).
Whitespace == {" ", "\n", "\t", "\r", "\f"}

\* Does pattern p (a literal, AnyChar matching every character) match s at i?
MatchAt(s, i, p) ==
    /\ i >= 1
    /\ i + Len(p) - 1 <= Len(s)
    /\ \A k \in 1..Len(p) : p[k] = AnyChar \/ s[i + k - 1] = p[k]

StartsWith(s, p) == MatchAt(s, 1, p)

EndsWith(s, p) == MatchAt(s, Len(s) - Len(p) + 1, p)

Min(S) == CHOOSE x \in S : \A y \in S : x <= y

Max(S) == CHOOSE x \in S : \A y \in S : x >= y

\* str.find from position i (1-based); 0 when p does not occur.
FindFrom(s, p, i) ==
    Once({k \in i..(Len(s) - Len(p) + 1) :
             (p[1] = AnyChar \/ s[k] = p[1]) /\ MatchAt(s, k, p)},
         LAMBDA hits : IF hits = {} THEN 0 ELSE Min(hits))

Contains(s, p) == FindFrom(s, p, 1) # 0

Drop(s, n) == SubSeq(s, n + 1, Len(s))

\* str.replace(old, new): every non-overlapping occurrence, left to right.
RECURSIVE Replace(_, _, _)
Replace(s, old, new) ==
    Once(FindFrom(s, old, 1), LAMBDA i :
         IF i = 0 THEN s
         ELSE SubSeq(s, 1, i - 1) \o new \o Replace(Drop(s, i + Len(old) - 1), old, new))

\* str.split(sep, maxsplit): at most maxsplit cuts, so at most maxsplit + 1 parts.
RECURSIVE SplitN(_, _, _)
SplitN(s, sep, maxsplit) ==
    Once(FindFrom(s, sep, 1), LAMBDA i :
         IF maxsplit = 0 \/ i = 0 THEN <<s>>
         ELSE <<SubSeq(s, 1, i - 1)>> \o
              SplitN(Drop(s, i + Len(sep) - 1), sep, maxsplit - 1))

\* str.split(sep) with no limit.
Split(s, sep) == SplitN(s, sep, Len(s))

\* str.strip(): from the first to the last character that is not whitespace.
Strip(s) ==
    Once({i \in 1..Len(s) : s[i] \notin Whitespace}, LAMBDA solid :
         IF solid = {} THEN <<>> ELSE SubSeq(s, Min(solid), Max(solid)))

\* os.path.basename: what follows the last '/'.
Basename(p) ==
    Once({i \in 1..Len(p) : p[i] = "/"}, LAMBDA slashes :
         IF slashes = {} THEN p ELSE Drop(p, Max(slashes)))

\* os.path.dirname of a relative name: what precedes the last '/'.
Dirname(p) == SubSeq(p, 1, Len(p) - Len(Basename(p)) - 1)

-----------------------------------------------------------------------------
(* Reading files as text *)

\* Universal newlines of open(path, 'r'): "\r\n" and a lone "\r" are read as "\n".
RECURSIVE TranslateNewlines(_)
TranslateNewlines(b) ==
    Once(FindFrom(b, <<"\r">>, 1), LAMBDA i :
         IF i = 0 THEN b
         ELSE SubSeq(b, 1, i - 1) \o <<"\n">> \o
              TranslateNewlines(IF MatchAt(b, i + 1, <<"\n">>) THEN Drop(b, i + 1)
                                ELSE Drop(b, i)))

\* f.read() of a file opened with encoding='utf-8': UnicodeDecodeError on an
\* invalid byte, otherwise the text with its line endings translated.
DecodeText(b) ==
    IF \E i \in 1..Len(b) : b[i] = BadByte
    THEN [ok |-> FALSE, text |-> <<>>]
    ELSE [ok |-> TRUE, text |-> TranslateNewlines(b)]

\* str.encode('utf-8') of text made of ASCII characters: one byte per character.
EncodeUtf8(t) == [i \in 1..Len(t) |-> t[i]]

-----------------------------------------------------------------------------
(* Regular expressions and templates (module re) *)

\* Where the lazy '.*?' followed by the literal close first matches, starting at
\* k: the position of close, or 0.  Without DOTALL '.' does not cross a newline.
FindClose(s, k, close, dotall) ==
    Once(FindFrom(s, close, k), LAMBDA j :
         IF j = 0 THEN 0
         ELSE IF ~dotall /\ \E m \in k..(j - 1) : s[m] = "\n" THEN 0
         ELSE j)

\* The last position of the match of  open .*? close  that starts at i, or 0.
MatchEnd(s, i, open, close, dotall) ==
    IF ~MatchAt(s, i, open) THEN 0
    ELSE Once(FindClose(s, i + Len(open), close, dotall), LAMBDA j :
              IF j = 0 THEN 0 ELSE j + Len(close) - 1)

\* re.sub(open .*? close, repl, s) from position i on: leftmost matches, not
\* overlapping, each replaced by the expanded replacement.
RECURSIVE RegexSubFrom(_, _, _, _, _, _)
RegexSubFrom(s, i, open, close, dotall, repl) ==
    Once({k \in i..Len(s) : s[k] = open[1] /\ MatchEnd(s, k, open, close, dotall) # 0},
         LAMBDA starts :
         IF starts = {} THEN SubSeq(s, i, Len(s))
         ELSE Once(Min(starts), LAMBDA first :
                   SubSeq(s, i, first - 1) \o repl \o
                   RegexSubFrom(s, MatchEnd(s, first, open, close, dotall) + 1,
                                open, close, dotall, repl)))

RegexSub(s, open, close, dotall, repl) == RegexSubFrom(s, 1, open, close, dotall, repl)

AsciiLetters == {Chars("abcdefghijklmnopqrstuvwxyzABCDEFGHIJKLMNOPQRSTUVWXYZ")[i] : i \in 1..52}

Digits == {Chars("0123456789")[i] : i \in 1..10}

\* The escapes a replacement template knows, of those a TLA+ string can hold.
TemplateEscape(c) ==
    CASE c = "n" -> "\n"
      [] c = "t" -> "\t"
      [] c = "r" -> "\r"
      [] c = "f" -> "\f"
      [] c = "\\" -> "\\"
      [] OTHER -> ""

\* re.sub parses a replacement string that holds a backslash as a template before
\* it looks for any match: a known escape is replaced, a backslash before another
\* ASCII letter, before a digit (a group reference; the patterns have no group) or
\* at the end raises re.error, and a backslash before anything else is kept.
RECURSIVE ExpandTemplate(_)
ExpandTemplate(v) ==
    Once(FindFrom(v, <<"\\">>, 1), LAMBDA i :
         IF i = 0 THEN [ok |-> TRUE, text |-> v]
         ELSE IF i = Len(v) THEN [ok |-> FALSE, text |-> <<>>]
         ELSE IF TemplateEscape(v[i + 1]) = "" /\ v[i + 1] \in AsciiLetters \cup Digits
         THEN [ok |-> FALSE, text |-> <<>>]
         ELSE Once(ExpandTemplate(Drop(v, i + 1)), LAMBDA r :
                   [ok |-> r.ok,
                    text |-> SubSeq(v, 1, i - 1) \o
                             (IF TemplateEscape(v[i + 1]) # ""
                              THEN <<TemplateEscape(v[i + 1])>>
                              ELSE <<"\\", v[i + 1]>>) \o r.text]))

-----------------------------------------------------------------------------
(* JekyllStaticHandler.process_template_vars *)

AssetStyleTag ==
    Chars("{{ '/assets/css/style.css?v=' | append: site.github.build_revision | relative_url }}")

AssetCustomTag == Chars("{{ '/assets/css/custom.css' | relative_url }}")

AssetStyleUrl == Chars("/assets/css/style.css")

AssetCustomUrl == Chars("/assets/css/custom.css")

\* The variable name as it stands in the pattern: its '.' is the regex '.'.
VarPattern(var) == [i \in 1..Len(var) |-> IF var[i] = "." THEN AnyChar ELSE var[i]]

IfOpen(var) == Chars("{% if ") \o VarPattern(var) \o Chars(" %}")

TagOpen == Chars("{%")
TagClose == Chars("%}")
ExprOpen == Chars("{{")
ExprClose == Chars("}}")

EndIf == Chars("{% endif %}")

Placeholder(var) == Chars("{{ ") \o var \o Chars(" }}")

\* One turn of the loop over variables.items(): the {% if var %} block is
\* replaced by the value (re.sub, DOTALL), then {{ var }} by the value.
SubstituteVar(acc, var, value) ==
    IF ~acc.ok THEN acc
    ELSE Once(ExpandTemplate(value), LAMBDA t :
              IF ~t.ok THEN [ok |-> FALSE, text |-> acc.text]
              ELSE [ok |-> TRUE,
                    text |-> Replace(RegexSub(acc.text, IfOpen(var), EndIf, TRUE, t.text),
                                     Placeholder(var), value)])

RECURSIVE SubstituteVars(_, _)
SubstituteVars(acc, variables) ==
    IF variables = <<>> THEN acc
    ELSE Once(SubstituteVar(acc, variables[1][1], variables[1][2]), LAMBDA next :
              SubstituteVars(next, Tail(variables)))

\* The two closing substitutions, neither with DOTALL.
RemoveRemaining(text) ==
    RegexSub(RegexSub(text, TagOpen, TagClose, FALSE, <<>>),
             ExprOpen, ExprClose, FALSE, <<>>)

\* variables is the dict as a sequence of <<name, value>> in insertion order.
\* [ok |-> FALSE] stands for re.error leaving the function.
process_template_vars(content, variables) ==
    Once(Replace(Replace(content, AssetStyleTag, AssetStyleUrl),
                 AssetCustomTag, AssetCustomUrl), LAMBDA fixed :
    Once(SubstituteVars([ok |-> TRUE, text |-> fixed], variables), LAMBDA r :
         IF ~r.ok THEN r ELSE [ok |-> TRUE, text |-> RemoveRemaining(r.text)]))

-----------------------------------------------------------------------------
(* The site directory *)

NoFile == [exists |-> FALSE]

File(b, r) == [exists |-> TRUE, bytes |-> b, readable |-> r]

IndexName == Chars("index.html")
AboutName == Chars("about.html")
LayoutName == Chars("_layouts/default.html")
StyleCssName == Chars("assets/css/style.css")

FileNames == {IndexName, AboutName, LayoutName, StyleCssName}

\* os.path.isfile / os.path.exists of a name below the site root.
IsFile(fs, name) == name \in DOMAIN fs /\ fs[name].exists

\* The site root is the one directory a request of the model can name.
IsDir(name) == name = <<>>

\* open(name) succeeds (for reading, text or binary).
CanOpen(fs, name) == IsFile(fs, name) /\ fs[name].readable

\* with open(path, 'r', encoding='utf-8') as f: f.read()
\* [ok |-> FALSE] stands for the OSError or UnicodeDecodeError it raises.
ReadText(fs, name) ==
    IF ~CanOpen(fs, name) THEN [ok |-> FALSE, text |-> <<>>]
    ELSE DecodeText(fs[name].bytes)

\* os.path.join of a directory (possibly empty) and a relative name.
JoinPath(dir, rest) == IF dir = <<>> THEN rest ELSE dir \o <<"/">> \o rest

-----------------------------------------------------------------------------
(* JekyllStaticHandler.process_jekyll_content *)

SiteTitle == Chars("Delano Johnson - Salesforce Technical Architect")

SiteDescription ==
    Chars("Salesforce Technical Architect & Data Strategist with 12+ years building enterprise solutions")

Delimiter == Chars("---")

LayoutKey == Chars("layout")

TitleKey == Chars("title")

HtmlSuffix == Chars(".html")

CssSuffix == Chars(".css")

\* The loop over the lines of the front matter: a line holding ':' gives a pair
\* <<key, value>>, cut at the first ':' and stripped; other lines give nothing.
RECURSIVE FrontMatterPairs(_)
FrontMatterPairs(lines) ==
    IF lines = <<>> THEN <<>>
    ELSE Once(SplitN(lines[1], <<":">>, 1), LAMBDA kv :
              (IF Len(kv) = 2 THEN << <<Strip(kv[1]), Strip(kv[2])>> >> ELSE <<>>)
              \o FrontMatterPairs(Tail(lines)))

\* The front matter extraction: [pairs, content].  When content does not start
\* with '---', or split('---', 2) gives fewer than three parts (the unpacking
\* raises ValueError, swallowed by the bare except), nothing is extracted and
\* content stays as read.
ExtractFrontMatter(content) ==
    IF ~StartsWith(content, Delimiter) THEN [pairs |-> <<>>, content |-> content]
    ELSE Once(SplitN(content, Delimiter, 2), LAMBDA parts :
              IF Len(parts) # 3 THEN [pairs |-> <<>>, content |-> content]
              ELSE [pairs |-> FrontMatterPairs(Split(Strip(parts[2]), <<"\n">>)),
                    content |-> Strip(parts[3])])

\* key in front_matter
HasKey(pairs, key) == \E i \in 1..Len(pairs) : pairs[i][1] = key

\* front_matter.get(key, default): a later line overwrites an earlier one.
RECURSIVE GetKey(_, _, _)
GetKey(pairs, key, default) ==
    IF pairs = <<>> THEN default
    ELSE IF pairs[Len(pairs)][1] = key THEN pairs[Len(pairs)][2]
    ELSE GetKey(SubSeq(pairs, 1, Len(pairs) - 1), key, default)

\* os.path.join(os.path.dirname(file_path), '_layouts', layout + '.html')
LayoutPath(file_path, layout) ==
    JoinPath(Dirname(file_path), Chars("_layouts/") \o layout \o HtmlSuffix)

ContentPlaceholder == Chars("{{ content }}")

\* The variables passed to process_template_vars, in the order of the dict.
TemplateVariables(pairs) ==
    << <<Chars("page.title"), GetKey(pairs, TitleKey, SiteTitle)>>,
       <<Chars("site.title"), SiteTitle>>,
       <<Chars("site.description"), SiteDescription>> >>

\* process_jekyll_content as it would be if a layout the front matter names and
\* the site lacks were an error: the except clause of serve_processed_html would
\* then answer with the file as stored.
process_jekyll_content_missing_layout_raises(content, file_path, fs) ==
    Once(ExtractFrontMatter(content), LAMBDA fm :
    Once(LayoutPath(file_path, GetKey(fm.pairs, LayoutKey, <<>>)), LAMBDA layout_path :
         IF ~HasKey(fm.pairs, LayoutKey)
         THEN [ok |-> TRUE, text |-> fm.content]
         ELSE Once(ReadText(fs, layout_path), LAMBDA layout :
                   IF ~layout.ok THEN [ok |-> FALSE, text |-> <<>>]
                   ELSE process_template_vars(
                            Replace(layout.text, ContentPlaceholder, fm.content),
                            TemplateVariables(fm.pairs)))))

\* [ok |-> FALSE] stands for an exception leaving the function: the layout file
\* exists and cannot be read or decoded, or re.sub raises re.error.
process_jekyll_content(content, file_path, fs) ==
    Once(ExtractFrontMatter(content), LAMBDA fm :
    Once(LayoutPath(file_path, GetKey(fm.pairs, LayoutKey, <<>>)), LAMBDA layout_path :
         IF ~HasKey(fm.pairs, LayoutKey) \/ ~IsFile(fs, layout_path)
         THEN [ok |-> TRUE, text |-> fm.content]
         ELSE Once(ReadText(fs, layout_path), LAMBDA layout :
                   IF ~layout.ok THEN [ok |-> FALSE, text |-> <<>>]
                   ELSE process_template_vars(
                            Replace(layout.text, ContentPlaceholder, fm.content),
                            TemplateVariables(fm.pairs)))))

-----------------------------------------------------------------------------
(* The connection: what a handler writes to the client *)

\* The status line and headers of one response, flushed by end_headers.
HeaderBlock(status, ctype) == [kind |-> "head", status |-> status, ctype |-> ctype, bytes |-> <<>>]

\* One write of body bytes.
BodyBlock(bytes) == [kind |-> "body", status |-> 0, ctype |-> "", bytes |-> bytes]

\* breakAt = 0: the client reads everything.  breakAt = n > 0: the client has gone
\* when the n-th write is made, and that write and every later one raise.
NewConn(breakAt) ==
    [writes |-> 0, wire |-> <<>>, started |-> <<>>, raised |-> FALSE, caught |-> 0,
     breakAt |-> breakAt]

\* wfile.write(chunk)
Write(c, chunk) ==
    IF c.breakAt # 0 /\ c.writes + 1 >= c.breakAt
    THEN [c EXCEPT !.writes = @ + 1, !.raised = TRUE]
    ELSE [c EXCEPT !.writes = @ + 1, !.wire = Append(@, chunk)]

\* send_response, send_header, end_headers and the write of the body: the status
\* line is generated (started), the header block is flushed, then the body is written.
Respond(c, status, ctype, bytes) ==
    Once([c EXCEPT !.started = Append(@, [status |-> status, bytes |-> bytes])],
         LAMBDA c1 :
    Once(Write(c1, HeaderBlock(status, ctype)), LAMBDA c2 :
         IF c2.raised THEN c2 ELSE Write(c2, BodyBlock(bytes))))

\* An except clause takes the exception.
Catch(c) == [c EXCEPT !.raised = FALSE, !.caught = @ + 1]

-----------------------------------------------------------------------------
(* SimpleHTTPRequestHandler: translate_path and do_GET of the base class *)

\* translate_path: the query and the fragment are dropped and the rest is taken
\* below the working directory; the result is the name relative to the site root.
translate_path(path) ==
    Once(SplitN(SplitN(path, <<"?">>, 1)[1], <<"#">>, 1)[1], LAMBDA noQuery :
    Once(IF StartsWith(noQuery, <<"/">>) THEN Tail(noQuery) ELSE noQuery, LAMBDA rel :
         IF EndsWith(rel, <<"/">>) THEN SubSeq(rel, 1, Len(rel) - 1) ELSE rel))

\* guess_type, for the extensions of the site.
GuessType(name) ==
    IF EndsWith(name, HtmlSuffix) THEN "text/html"
    ELSE IF EndsWith(name, CssSuffix) THEN "text/css"
    ELSE "application/octet-stream"

ErrorPage == <<"<error page>">>

DirectoryListing == <<"<directory listing>">>

\* super().do_GET(): send_head, then the file is copied to the client.  A
\* directory is answered with its index.html when there is one, otherwise with a
\* listing; a file that cannot be opened is answered with send_error(404).
StaticGET(c, path, fs) ==
    Once(translate_path(path), LAMBDA name :
    Once(IF IsDir(name) /\ IsFile(fs, JoinPath(name, IndexName))
         THEN JoinPath(name, IndexName) ELSE name, LAMBDA file :
         IF IsDir(file)
         THEN Respond(c, 200, "text/html; charset=utf-8", DirectoryListing)
         ELSE IF ~CanOpen(fs, file)
         THEN Respond(c, 404, "text/html;charset=utf-8", ErrorPage)
         ELSE Respond(c, 200, GuessType(file), fs[file].bytes)))

-----------------------------------------------------------------------------
(* JekyllStaticHandler.serve_processed_html and do_GET *)

\* The try block: read, process, send.  Whatever it raises, the except clause
\* calls super().do_GET(); what that raises leaves the function.
serve_processed_html(c, file_path, path, fs) ==
    Once(ReadText(fs, file_path), LAMBDA content :
    Once(IF content.ok THEN process_jekyll_content(content.text, file_path, fs)
         ELSE content, LAMBDA processed :
    Once(IF processed.ok
         THEN Respond(c, 200, "text/html; charset=utf-8", EncodeUtf8(processed.text))
         ELSE [c EXCEPT !.raised = TRUE], LAMBDA c1 :
         IF c1.raised THEN StaticGET(Catch(c1), path, fs) ELSE c1)))

\* The normalisation without the rule for the root path.
NormalizePath_no_root_rule(path) ==
    IF /\ ~EndsWith(path, HtmlSuffix)
       /\ ~EndsWith(path, CssSuffix)
       /\ ~Contains(Basename(path), <<".">>)
    THEN path \o HtmlSuffix
    ELSE path

\* The normalisation without the test of the basename: whatever does not end
\* with '.html' or '.css' gets the suffix.
NormalizePath_no_basename_test(path) ==
    Once(IF path = <<"/">> THEN <<"/">> \o IndexName ELSE path, LAMBDA p :
         IF ~EndsWith(p, HtmlSuffix) /\ ~EndsWith(p, CssSuffix)
         THEN p \o HtmlSuffix
         ELSE p)

\* The first lines of do_GET: the path the rest of the handler works with.
NormalizePath(path) ==
    Once(IF path = <<"/">> THEN <<"/">> \o IndexName ELSE path, LAMBDA p :
         IF /\ ~EndsWith(p, HtmlSuffix)
            /\ ~EndsWith(p, CssSuffix)
            /\ ~Contains(Basename(p), <<".">>)
         THEN p \o HtmlSuffix
         ELSE p)

\* if os.path.isfile(file_path) and file_path.endswith('.html')
IsProcessed(path, fs) ==
    Once(translate_path(path), LAMBDA file_path :
         IsFile(fs, file_path) /\ EndsWith(file_path, HtmlSuffix))

\* do_GET for a request path: the record of what the handler did.  raised says
\* that an exception left do_GET.
do_GET(path, fs, breakAt) ==
    Once(NormalizePath(path), LAMBDA p :
    Once(IsProcessed(p, fs), LAMBDA processed :
    Once(IF processed
         THEN serve_processed_html(NewConn(breakAt), translate_path(p), p, fs)
         ELSE StaticGET(NewConn(breakAt), p, fs), LAMBDA c1 :
    Once(IF c1.raised THEN StaticGET(Catch(c1), p, fs) ELSE c1, LAMBDA c2 :
         [path |-> p,
          route |-> IF processed THEN "processed" ELSE "static",
          wire |-> c2.wire, started |-> c2.started, caught |-> c2.caught,
          raised |-> c2.raised]))))

-----------------------------------------------------------------------------
(* create_simple_css and start_server *)

\* The text of base_css, as one opaque element.
BaseCss == <<"<base_css>">>

\* create_simple_css: [ok, files].  open(style_css_path, 'w') creates the file in
\* an existing directory; in a missing one it raises FileNotFoundError, which
\* nothing catches (ok |-> FALSE).
create_simple_css(fs, dirExists) ==
    IF IsFile(fs, StyleCssName) THEN [ok |-> TRUE, files |-> fs]
    ELSE IF ~dirExists THEN [ok |-> FALSE, files |-> fs]
    ELSE [ok |-> TRUE, files |-> [fs EXCEPT ![StyleCssName] = File(BaseCss, TRUE)]]

\* A server loop that does not survive an exception leaving the handler.
ServerAfter_exception_ends_loop(resp) == IF resp.raised THEN "crashed" ELSE "serving"

\* serve_forever after a request: an exception that leaves the handler is
\* reported by handle_error and the loop goes on.
ServerAfter(resp) == "serving"

-----------------------------------------------------------------------------
(* Bounds and the inputs of the model *)

\* Requests one run of the server answers.
MaxRequests == 2

\* Elements a content handed to process_template_vars is made of, at most.
MaxAtoms == 3

NoReq == [path |-> <<>>, breakAt |-> 0, none |-> TRUE]

NoResp == [none |-> TRUE]

NoOut == [none |-> TRUE]

PlainPage == File(Chars("<p>home</p>"), TRUE)

LayoutPage == File(Chars("---\nlayout: default\ntitle: Hi\n---\nhome"), TRUE)

UnreadablePage == File(Chars("hi"), FALSE)

PlainLayout == File(Chars("<h1>{{ page.title }}</h1><main>{{ content }}</main>"), TRUE)

\* The site directories the server is started in.
IndexFiles == {NoFile, PlainPage, LayoutPage}

AboutFiles == {NoFile, PlainPage, LayoutPage, UnreadablePage}

LayoutFiles == {NoFile, PlainLayout}

StyleFiles == {NoFile, File(Chars("body{}"), TRUE)}

RequestPaths ==
    { Chars("/"), Chars("/index.html"), Chars("/about"), Chars("/about.html"),
      Chars("/about?v=1"), Chars("/about.html?v=1"), Chars("/?v=1"),
      Chars("/assets/css/style.css"), Chars("/assets/css/") }

\* 0: the client reads the whole response; n: it has gone at the n-th write.
BreakPoints == {0, 1, 2}

\* The pages and layouts one request is checked against.
PageHeaders ==
    { <<>>,
      Chars("---\nlayout: default\n---\n"),
      Chars("---\nlayout: default\ntitle: Hi\n---\n"),
      Chars("---\nlayout: default\ntitle: a\\d\n---\n"),
      Chars("---\nlayout: nope\n---\n"),
      Chars("---\nlayout: default\n"),
      Chars("---\ntitle: Hi\n---\n"),
      Chars("----\n") }

PageBodies ==
    { Chars("hi"),
      Chars("\nhi \n"),
      Chars("a {{ x }} b"),
      Chars("{%\n%}"),
      Chars("a\r\nb"),
      Chars("a --- b"),
      <<"h", BadByte>> }

PageFiles == {UnreadablePage} \cup {File(h \o b, TRUE) : h \in PageHeaders, b \in PageBodies}

PageLayoutFiles ==
    { NoFile,
      PlainLayout,
      File(Chars("{% if page.title %}<t>{% endif %}\n{{ content }}\n{% include f %}"), TRUE),
      File(Chars("<i>{{ site.title }}</i>\r\n{{ content }}{{ content }}"), TRUE),
      File(Chars("{{ content }}"), FALSE),
      File(<<BadByte>> \o Chars("{{ content }}"), TRUE) }

PagePaths == {Chars("/about"), Chars("/about.html")}

\* The inputs of process_template_vars on its own.
TemplateAtoms ==
    { Chars("{%"), Chars("%}"), Chars("{{"), Chars("}}"), <<"\n">>, <<"a">>,
      Chars("{{ page.title }}") }

TemplateValues == {<<>>, Chars("Hi"), Chars("a\\d")}

\* Every concatenation of at most n atoms.
RECURSIVE AtomStrings(_)
AtomStrings(n) ==
    IF n = 0 THEN {<<>>}
    ELSE AtomStrings(n - 1) \cup {s \o a : s \in AtomStrings(n - 1), a \in TemplateAtoms}

Site(i, a, l, c) ==
    [n \in FileNames |->
        IF n = IndexName THEN i
        ELSE IF n = AboutName THEN a
        ELSE IF n = LayoutName THEN l
        ELSE c]

-----------------------------------------------------------------------------
(* The server *)

TemplateIdle ==
    /\ tvContent = <<>>
    /\ tvValue = <<>>
    /\ tvOut = NoOut

Init ==
    /\ \E i \in IndexFiles, a \in AboutFiles, l \in LayoutFiles, c \in StyleFiles :
           files = Site(i, a, l, c)
    /\ cssDir \in BOOLEAN
    /\ (files[StyleCssName].exists => cssDir)
    /\ server = "init"
    /\ served = 0
    /\ errors = 0
    /\ lastReq = NoReq
    /\ lastResp = NoResp
    /\ TemplateIdle

\* python serve_static.py: start_server up to serve_forever.  The program is
\* started when it is not running.
Start ==
    /\ server \in {"init", "stopped", "crashed"}
    /\ LET r == create_simple_css(files, cssDir)
       IN  /\ files' = r.files
           /\ server' = IF r.ok THEN "serving" ELSE "crashed"
    /\ served' = 0
    /\ errors' = 0
    /\ lastReq' = NoReq
    /\ lastResp' = NoResp
    /\ UNCHANGED <<cssDir, tvVars>>

\* The handler is run for one GET request and the server loop goes on.
Handle(path, breakAt) ==
    \E resp \in {do_GET(path, files, breakAt)} :
        /\ lastReq' = [path |-> path, breakAt |-> breakAt, none |-> FALSE]
        /\ lastResp' = resp
        /\ errors' = IF resp.raised THEN errors + 1 ELSE errors
        /\ server' = ServerAfter(resp)
        /\ served' = served + 1
        /\ UNCHANGED <<files, cssDir, tvVars>>

\* The server handles one GET request.
Request ==
    /\ server = "serving"
    /\ served < MaxRequests
    /\ \E path \in RequestPaths, breakAt \in BreakPoints : Handle(path, breakAt)

\* Ctrl+C: serve_forever raises KeyboardInterrupt, start_server prints and returns.
KeyboardInterrupt ==
    /\ server = "serving"
    /\ server' = "stopped"
    /\ UNCHANGED <<files, cssDir, served, errors, lastReq, lastResp, tvVars>>

Next == Start \/ Request \/ KeyboardInterrupt

Spec == Init /\ [][Next]_vars

-----------------------------------------------------------------------------
(* One request for a page, against every page and layout of the model *)

InitPage ==
    /\ \E a \in PageFiles, l \in PageLayoutFiles :
           files = Site(NoFile, a, l, File(BaseCss, TRUE))
    /\ cssDir = TRUE
    /\ server = "serving"
    /\ served = 0
    /\ errors = 0
    /\ lastReq = NoReq
    /\ lastResp = NoResp
    /\ TemplateIdle

\* The first request the running server gets is for the page.
ServePage ==
    /\ server = "serving"
    /\ served = 0
    /\ \E path \in PagePaths, breakAt \in BreakPoints : Handle(path, breakAt)

NextPage == ServePage

SpecPage == InitPage /\ [][NextPage]_vars

-----------------------------------------------------------------------------
(* process_template_vars on its own *)

InitVars ==
    /\ files = Site(NoFile, NoFile, NoFile, NoFile)
    /\ cssDir = FALSE
    /\ server = "init"
    /\ served = 0
    /\ errors = 0
    /\ lastReq = NoReq
    /\ lastResp = NoResp
    /\ tvContent \in AtomStrings(MaxAtoms)
    /\ tvValue \in TemplateValues
    /\ tvOut = NoOut

\* One call of process_template_vars with the variables of process_jekyll_content.
ApplyTemplateVars ==
    /\ tvOut = NoOut
    /\ tvOut' = process_template_vars(
                    tvContent, TemplateVariables(<< <<TitleKey, tvValue>> >>))
    /\ UNCHANGED <<tvContent, tvValue, serverVars>>

NextVars == ApplyTemplateVars

SpecVars == InitVars /\ [][NextVars]_vars

-----------------------------------------------------------------------------
(* What the client of the last request got *)

Answered == lastReq.none = FALSE

\* The client read everything the handler wrote.
Intact == lastReq.breakAt = 0

\* The file the normalised path of the last request names.
RequestedFile == translate_path(lastResp.path)

\* The last request was for a .html file of the site.
HtmlRequested == IsFile(files, RequestedFile) /\ EndsWith(RequestedFile, HtmlSuffix)

\* The client received one complete response with this status and this body.
ClientGot(status, bytes) ==
    /\ Len(lastResp.wire) = 2
    /\ lastResp.wire[1].kind = "head"
    /\ lastResp.wire[1].status = status
    /\ lastResp.wire[2].kind = "body"
    /\ lastResp.wire[2].bytes = bytes

\* The front matter of text names a layout whose file is name.
NamesLayout(text, file, name) ==
    LET fm == ExtractFrontMatter(text)
    IN  /\ HasKey(fm.pairs, LayoutKey)
        /\ LayoutPath(file, GetKey(fm.pairs, LayoutKey, <<>>)) = name

\* The front matter of text names a layout the site has no file for.
NamesMissingLayout(text, file) ==
    LET fm == ExtractFrontMatter(text)
    IN  /\ HasKey(fm.pairs, LayoutKey)
        /\ ~IsFile(files, LayoutPath(file, GetKey(fm.pairs, LayoutKey, <<>>)))

\* A leading '---' with no closing '---'.
Malformed(text) == StartsWith(text, Delimiter) /\ ~Contains(Drop(text, Len(Delimiter)), Delimiter)

\* What follows the closing '---' of the block text starts with.
AfterFrontMatter(text) ==
    LET rest == Drop(text, Len(Delimiter))
    IN  Drop(rest, FindFrom(rest, Delimiter, 1) + Len(Delimiter) - 1)

Braces == {"{", "}"}

\* The end of s that holds no template syntax.
LiteralSuffix(s) ==
    LET at == {i \in 1..Len(s) : s[i] \in Braces}
    IN  IF at = {} THEN s ELSE Drop(s, Max(at))

\* The start of s that holds no template syntax.
LiteralPrefix(s) ==
    LET at == {i \in 1..Len(s) : s[i] \in Braces}
    IN  IF at = {} THEN s ELSE SubSeq(s, 1, Min(at) - 1)

\* t holds open, and close somewhere after it.
HasBlock(t, open, close) ==
    \E i \in 1..Len(t) : \E j \in (i + Len(open))..Len(t) :
        MatchAt(t, i, open) /\ MatchAt(t, j, close)

-----------------------------------------------------------------------------
(* The root path *)

\* C1: for every site directory, a GET for '/' has the response of a GET for
\* '/index.html' against the same directory: the same responses started (status
\* and body), the same bytes on the wire, the same outcome of the handler.
C1_RootAnsweredAsIndex ==
    (Answered /\ lastReq.path = <<"/">>) =>
        \E r \in {do_GET(<<"/">> \o IndexName, files, lastReq.breakAt)} :
            /\ lastResp.wire = r.wire
            /\ lastResp.started = r.started
            /\ lastResp.raised = r.raised

\* '/' was requested of a site with an index page, and the client got the page.
C1_RootServedIndex ==
    /\ Answered
    /\ lastReq.path = <<"/">>
    /\ IsFile(files, IndexName)
    /\ ClientGot(200, files[IndexName].bytes)

-----------------------------------------------------------------------------
(* Pages without front matter *)

\* C2: an existing .html file whose content does not begin with '---' is
\* answered with the file's content, byte for byte.
C2_PlainFileServedUnmodified ==
    (/\ Answered
     /\ Intact
     /\ HtmlRequested
     /\ CanOpen(files, RequestedFile)
     /\ ~StartsWith(files[RequestedFile].bytes, Delimiter))
    => ClientGot(200, files[RequestedFile].bytes)

-----------------------------------------------------------------------------
(* Pages with a layout *)

\* C3: when the front matter of a page names a layout the site has, the body of
\* the response holds the page's content (the text after the front matter) in the
\* place of the layout's '{{ content }}', between the markup that surrounds the
\* placeholder in the layout, whatever the page's content and front matter are.
\* Stated for the pages it asks least of: a content that holds no template
\* syntax of its own, taken as the handler reads and strips it.
C3_LayoutWrapsContent ==
    (/\ Answered
     /\ Intact
     /\ HtmlRequested
     /\ CanOpen(files, RequestedFile)
     /\ CanOpen(files, LayoutName))
    => LET page == ReadText(files, RequestedFile)
           layout == ReadText(files, LayoutName)
       IN  (/\ page.ok
            /\ layout.ok
            /\ NamesLayout(page.text, RequestedFile, LayoutName)
            /\ \A i \in 1..Len(AfterFrontMatter(page.text)) :
                   AfterFrontMatter(page.text)[i] \notin Braces
            /\ Contains(layout.text, ContentPlaceholder))
           => LET k == FindFrom(layout.text, ContentPlaceholder, 1)
                  before == LiteralSuffix(SubSeq(layout.text, 1, k - 1))
                  after == LiteralPrefix(Drop(layout.text, k + Len(ContentPlaceholder) - 1))
                  content == Strip(AfterFrontMatter(page.text))
              IN  /\ Len(lastResp.wire) = 2
                  /\ lastResp.wire[1].status = 200
                  /\ Contains(lastResp.wire[2].bytes, before \o content \o after)

-----------------------------------------------------------------------------
(* Exceptions while a page is processed *)

\* C4: when reading or processing an existing .html file raises, the client
\* gets the bytes of the file as stored, and no error response.  Stated for the
\* requests whose client reads everything that is written to it.
C4_RawBytesAfterException ==
    (/\ Answered
     /\ Intact
     /\ HtmlRequested
     /\ lastResp.caught >= 1)
    => ClientGot(200, files[RequestedFile].bytes)

\* C5 as the specification has it: a missing layout or a malformed front matter
\* block is answered with the unprocessed file, front matter included.  The
\* content of the file is taken as the text read from it.
C5_FallsBackToUnprocessedFile ==
    (/\ Answered
     /\ Intact
     /\ HtmlRequested
     /\ CanOpen(files, RequestedFile)
     /\ DecodeText(files[RequestedFile].bytes).ok)
    => LET text == DecodeText(files[RequestedFile].bytes).text
       IN  (NamesMissingLayout(text, RequestedFile) \/ Malformed(text))
           => ClientGot(200, EncodeUtf8(text))

\* C5: neither case is an error to the handler, and the processed-HTML path
\* answers both with status 200.  With a missing layout the body is the text
\* after the front matter block, stripped of the whitespace around it, and the
\* front matter is not sent.  With a leading '---' that is never closed the body
\* is the whole text of the file as read in text mode (line endings as '\n'),
\* the leading '---' included.
C5_MissingLayoutServesContentOnly ==
    (/\ Answered
     /\ HtmlRequested
     /\ CanOpen(files, RequestedFile)
     /\ DecodeText(files[RequestedFile].bytes).ok)
    => LET text == DecodeText(files[RequestedFile].bytes).text
           body == IF Malformed(text) THEN text ELSE Strip(AfterFrontMatter(text))
       IN  (NamesMissingLayout(text, RequestedFile) \/ Malformed(text))
           => /\ lastResp.route = "processed"
              /\ lastResp.started[1] = [status |-> 200, bytes |-> EncodeUtf8(body)]
              /\ Intact => /\ ClientGot(200, EncodeUtf8(body))
                           /\ lastResp.caught = 0
                           /\ Len(lastResp.started) = 1

\* A page naming a missing layout was requested, and the body the client got is
\* the content without the front matter block.
C5_MissingLayoutServed ==
    /\ Answered
    /\ Intact
    /\ HtmlRequested
    /\ CanOpen(files, RequestedFile)
    /\ DecodeText(files[RequestedFile].bytes).ok
    /\ NamesMissingLayout(DecodeText(files[RequestedFile].bytes).text, RequestedFile)
    /\ Len(lastResp.wire) = 2
    /\ lastResp.wire[2].bytes # files[RequestedFile].bytes
    /\ ~StartsWith(lastResp.wire[2].bytes, Delimiter)

-----------------------------------------------------------------------------
(* The server loop *)

-----------------------------------------------------------------------------
(* The default stylesheet *)

\* C7: the start of the program leaves an existing style.css as it is, with
\* nothing written, and when style.css is absent the file exists with the
\* default content afterwards; a second start changes nothing.
C7_StylesheetEnsured ==
    [][server # "serving" =>
          IF IsFile(files, StyleCssName)
          THEN files' = files
          ELSE files' = [files EXCEPT ![StyleCssName] = File(BaseCss, TRUE)]]_vars

-----------------------------------------------------------------------------
(* Normalisation and routing *)

-----------------------------------------------------------------------------
(* Template syntax left in the output *)

\* C9: what process_template_vars returns holds no '{% ... %}' tag and no
\* '{{ ... }}' expression, for every content and every value of the variables.
C9_NoTemplateSyntaxLeft ==
    (tvOut # NoOut /\ tvOut.ok) =>
        /\ ~HasBlock(tvOut.text, TagOpen, TagClose)
        /\ ~HasBlock(tvOut.text, ExprOpen, ExprClose)

-----------------------------------------------------------------------------
(* One response for a request *)

\* C10: a request is answered with one response at most: once a status line and
\* header block has reached the client, the handler starts no other response,
\* on the except paths either.
C10_OneResponsePerRequest ==
    (Answered /\ Len(lastResp.wire) >= 1) => Len(lastResp.started) <= 1

====
